---- MODULE Spec2Model ----
(***************************************************************************)
(* A model of customs (src/src/customs.py): the W001 CallImportChecker,    *)
(* the Linter that runs checkers over a parsed file and prints their       *)
(* violations, and the lint() driver that walks a list of paths.           *)
(*                                                                         *)
(* A syntax tree is a sequence of node records; the index of a node in the *)
(* sequence is its identity inside one parse and node 1 is the Module.     *)
(* The trees are the ones ast.parse of CPython 3.11 returns for the source *)
(* texts below (expression-context nodes Load/Store, which carry no        *)
(* position and no children, are left out).  A node object is the pair     *)
(* <<parse, id>>: every call of ast.parse builds fresh objects.            *)
(***************************************************************************)
EXTENDS Integers, Sequences, FiniteSets, TLC

\* Longest list of paths handed to lint().
MaxFiles == 2

\* ------------------------------------------------------------------------
\* Syntax Tree Provider: ast.parse on the source texts of the file system.

Node(t, l, c, kids, nm, seg) ==
    [type |-> t, lineno |-> l, col_offset |-> c, children |-> kids,
     name |-> nm, segment |-> seg]

\* import re / re.search("")                     (test_call, first case)
SrcCall == "import re\nre.search(\"\")\n"
TreeCall == <<
    Node("Module", 0, 0, <<2, 4>>, "", <<>>),
    Node("Import", 1, 0, <<3>>, "", <<>>),
    Node("alias", 1, 7, <<>>, "re", <<>>),
    Node("Expr", 2, 0, <<5>>, "", <<>>),
    Node("Call", 2, 0, <<6, 8>>, "", <<"re.search(\"\")">>),
    Node("Attribute", 2, 0, <<7>>, "search", <<>>),
    Node("Name", 2, 0, <<>>, "re", <<>>),
    Node("Constant", 2, 10, <<>>, "", <<>>) >>

\* two bare calls on two lines
SrcTwo == "foo()\nbar()\n"
TreeTwo == <<
    Node("Module", 0, 0, <<2, 5>>, "", <<>>),
    Node("Expr", 1, 0, <<3>>, "", <<>>),
    Node("Call", 1, 0, <<4>>, "", <<"foo()">>),
    Node("Name", 1, 0, <<>>, "foo", <<>>),
    Node("Expr", 2, 0, <<6>>, "", <<>>),
    Node("Call", 2, 0, <<7>>, "", <<"bar()">>),
    Node("Name", 2, 0, <<>>, "bar", <<>>) >>

\* only exempt statements                         (test_no_matches)
SrcExempt == "logging.getLogger()\nlog = getLogger()\ngetLogger(\nfoo()\n)\n"
TreeExempt == <<
    Node("Module", 0, 0, <<2, 6, 10>>, "", <<>>),
    Node("Expr", 1, 0, <<3>>, "", <<>>),
    Node("Call", 1, 0, <<4>>, "", <<"logging.getLogger()">>),
    Node("Attribute", 1, 0, <<5>>, "getLogger", <<>>),
    Node("Name", 1, 0, <<>>, "logging", <<>>),
    Node("Assign", 2, 0, <<7, 8>>, "", <<"log = getLogger()">>),
    Node("Name", 2, 0, <<>>, "log", <<>>),
    Node("Call", 2, 6, <<9>>, "", <<"getLogger()">>),
    Node("Name", 2, 6, <<>>, "getLogger", <<>>),
    Node("Expr", 3, 0, <<11>>, "", <<>>),
    Node("Call", 3, 0, <<12, 13>>, "", <<"getLogger(", "foo()", ")">>),
    Node("Name", 3, 0, <<>>, "getLogger", <<>>),
    Node("Call", 4, 0, <<14>>, "", <<"foo()">>),
    Node("Name", 4, 0, <<>>, "foo", <<>>) >>

\* import re / a = re.search("")                  (test_assign, first case)
SrcAssign == "import re\na = re.search(\"\")\n"
TreeAssign == <<
    Node("Module", 0, 0, <<2, 4>>, "", <<>>),
    Node("Import", 1, 0, <<3>>, "", <<>>),
    Node("alias", 1, 7, <<>>, "re", <<>>),
    Node("Assign", 2, 0, <<5, 6>>, "", <<"a = re.search(\"\")">>),
    Node("Name", 2, 0, <<>>, "a", <<>>),
    Node("Call", 2, 4, <<7, 9>>, "", <<"re.search(\"\")">>),
    Node("Attribute", 2, 4, <<8>>, "search", <<>>),
    Node("Name", 2, 4, <<>>, "re", <<>>),
    Node("Constant", 2, 14, <<>>, "", <<>>) >>

\* three statements of the module body on one line
SrcSemi == "x = 1; foo(); a = foo()\n"
TreeSemi == <<
    Node("Module", 0, 0, <<2, 5, 8>>, "", <<>>),
    Node("Assign", 1, 0, <<3, 4>>, "", <<"x = 1">>),
    Node("Name", 1, 0, <<>>, "x", <<>>),
    Node("Constant", 1, 4, <<>>, "", <<>>),
    Node("Expr", 1, 7, <<6>>, "", <<>>),
    Node("Call", 1, 7, <<7>>, "", <<"foo()">>),
    Node("Name", 1, 7, <<>>, "foo", <<>>),
    Node("Assign", 1, 14, <<9, 10>>, "", <<"a = foo()">>),
    Node("Name", 1, 14, <<>>, "a", <<>>),
    Node("Call", 1, 18, <<11>>, "", <<"foo()">>),
    Node("Name", 1, 18, <<>>, "foo", <<>>) >>

\* an assignment continued on the next line: the call starts at column 0
SrcCont == "a = \\\nfoo()\n"
TreeCont == <<
    Node("Module", 0, 0, <<2>>, "", <<>>),
    Node("Assign", 1, 0, <<3, 4>>, "", <<"a = \\", "foo()">>),
    Node("Name", 1, 0, <<>>, "a", <<>>),
    Node("Call", 2, 0, <<5>>, "", <<"foo()">>),
    Node("Name", 2, 0, <<>>, "foo", <<>>) >>

\* column-0 calls inside a list display and inside an argument list
SrcNested == "x = [\nfoo(),\n]\nbar(\nbaz()\n)\n"
TreeNested == <<
    Node("Module", 0, 0, <<2, 7>>, "", <<>>),
    Node("Assign", 1, 0, <<3, 4>>, "", <<"x = [", "foo(),", "]">>),
    Node("Name", 1, 0, <<>>, "x", <<>>),
    Node("List", 1, 4, <<5>>, "", <<>>),
    Node("Call", 2, 0, <<6>>, "", <<"foo()">>),
    Node("Name", 2, 0, <<>>, "foo", <<>>),
    Node("Expr", 4, 0, <<8>>, "", <<>>),
    Node("Call", 4, 0, <<9, 10>>, "", <<"bar(", "baz()", ")">>),
    Node("Name", 4, 0, <<>>, "bar", <<>>),
    Node("Call", 5, 0, <<11>>, "", <<"baz()">>),
    Node("Name", 5, 0, <<>>, "baz", <<>>) >>

\* parenthesised call statements
SrcParen == "(\nfoo()\n)\n(bar())\n"
TreeParen == <<
    Node("Module", 0, 0, <<2, 5>>, "", <<>>),
    Node("Expr", 1, 0, <<3>>, "", <<>>),
    Node("Call", 2, 0, <<4>>, "", <<"foo()">>),
    Node("Name", 2, 0, <<>>, "foo", <<>>),
    Node("Expr", 4, 0, <<6>>, "", <<>>),
    Node("Call", 4, 1, <<7>>, "", <<"bar()">>),
    Node("Name", 4, 1, <<>>, "bar", <<>>) >>

\* an annotated assignment and a call inside a function body
SrcMisc == "a: int = foo()\ndef f():\n    foo()\n"
TreeMisc == <<
    Node("Module", 0, 0, <<2, 7>>, "", <<>>),
    Node("AnnAssign", 1, 0, <<3, 4, 5>>, "", <<>>),
    Node("Name", 1, 0, <<>>, "a", <<>>),
    Node("Name", 1, 3, <<>>, "int", <<>>),
    Node("Call", 1, 9, <<6>>, "", <<"foo()">>),
    Node("Name", 1, 9, <<>>, "foo", <<>>),
    Node("FunctionDef", 2, 0, <<8, 9>>, "f", <<>>),
    Node("arguments", 0, 0, <<>>, "", <<>>),
    Node("Expr", 3, 4, <<10>>, "", <<>>),
    Node("Call", 3, 4, <<11>>, "", <<"foo()">>),
    Node("Name", 3, 4, <<>>, "foo", <<>>) >>

\* not syntactically valid
SrcBad == "def (:\n"

\* ast.parse(source_code): the tree, or <<>> for a SyntaxError.
ast_parse(source_code) ==
    CASE source_code = SrcCall -> TreeCall
      [] source_code = SrcTwo -> TreeTwo
      [] source_code = SrcExempt -> TreeExempt
      [] source_code = SrcAssign -> TreeAssign
      [] source_code = SrcSemi -> TreeSemi
      [] source_code = SrcCont -> TreeCont
      [] source_code = SrcNested -> TreeNested
      [] source_code = SrcParen -> TreeParen
      [] source_code = SrcMisc -> TreeMisc
      [] OTHER -> <<>>

\* ------------------------------------------------------------------------
\* The file system seen by lint(): a path is a sequence of components.

Paths ==
    {<<"test.py">>, <<"pkg", "two.py">>, <<"exempt.py">>, <<"assign.py">>,
     <<"semi.py">>, <<"cont.py">>, <<"nested.py">>, <<"paren.py">>,
     <<"misc.py">>, <<"bad.py">>, <<"missing.py">>, <<"pkg">>}

FileSystem(path) ==
    CASE path = <<"test.py">> -> [kind |-> "file", text |-> SrcCall]
      [] path = <<"pkg", "two.py">> -> [kind |-> "file", text |-> SrcTwo]
      [] path = <<"exempt.py">> -> [kind |-> "file", text |-> SrcExempt]
      [] path = <<"assign.py">> -> [kind |-> "file", text |-> SrcAssign]
      [] path = <<"semi.py">> -> [kind |-> "file", text |-> SrcSemi]
      [] path = <<"cont.py">> -> [kind |-> "file", text |-> SrcCont]
      [] path = <<"nested.py">> -> [kind |-> "file", text |-> SrcNested]
      [] path = <<"paren.py">> -> [kind |-> "file", text |-> SrcParen]
      [] path = <<"misc.py">> -> [kind |-> "file", text |-> SrcMisc]
      [] path = <<"bad.py">> -> [kind |-> "file", text |-> SrcBad]
      [] path = <<"pkg">> -> [kind |-> "dir", text |-> ""]
      [] OTHER -> [kind |-> "missing", text |-> ""]

is_file_exists(path) == FileSystem(path).kind # "missing"

\* Path(source_path).is_file()
is_file(path) == FileSystem(path).kind = "file"

\* os.path.basename(source_path)
basename(path) == path[Len(path)]

\* ------------------------------------------------------------------------
\* Violation and CallImportChecker.

\* The issue codes of the checker instances that can be registered; lint()
\* registers the one with code W001.
IssueCodes == {"W001", "W002"}

\* self.exceptions
exceptions == {"getLogger"}

\* Violation(node, message); node is the object <<parse, id>>.
Violation(parse, n, message) == [node |-> <<parse, n>>, message |-> message]

\* One call of a visit_* hook on node n, with the nodes it recorded.
Event(h, n, recorded) == [hook |-> h, node |-> n, adds |-> recorded]

RECURSIVE visit(_, _)
RECURSIVE generic_visit(_, _)

visit_Assign_value(T, n) ==
    LET node == T[n]
        value == node.children[Len(node.children)]
        func == T[value].children[1]
    IN  IF 0 # node.col_offset THEN {Event("visit_Assign", n, {})}
        ELSE IF T[value].type # "Call" THEN {Event("visit_Assign", n, {})}
        ELSE IF T[func].type = "Attribute" /\ T[func].name \in exceptions
             THEN {Event("visit_Assign", n, {})}
        ELSE IF T[func].type = "Name" /\ T[func].name \in exceptions
             THEN {Event("visit_Assign", n, {})}
        ELSE {Event("visit_Assign", n, {value})}

\* CallImportChecker.visit_Assign
visit_Assign(T, n) ==
    LET node == T[n]
        value == node.children[Len(node.children)]
        func == T[value].children[1]
    IN  IF 0 # node.col_offset THEN {Event("visit_Assign", n, {})}
        ELSE IF T[value].type # "Call" THEN {Event("visit_Assign", n, {})}
        ELSE IF T[func].type = "Attribute" /\ T[func].name \in exceptions
             THEN {Event("visit_Assign", n, {})}
        ELSE IF T[func].type = "Name" /\ T[func].name \in exceptions
             THEN {Event("visit_Assign", n, {})}
        ELSE {Event("visit_Assign", n, {n})}

visit_Call_descend(T, n) ==
    LET node == T[n]
        func == node.children[1]
    IN  IF 0 # node.col_offset
        THEN {Event("visit_Call", n, {})} \cup generic_visit(T, n)
        ELSE IF T[func].type = "Attribute" /\ T[func].name \in exceptions
             THEN {Event("visit_Call", n, {})} \cup generic_visit(T, n)
        ELSE IF T[func].type \in {"Name", "Assign"} /\ T[func].name \in exceptions
             THEN {Event("visit_Call", n, {})} \cup generic_visit(T, n)
        ELSE {Event("visit_Call", n, {n})} \cup generic_visit(T, n)

visit_Call_names_only(T, n) ==
    LET node == T[n]
        func == node.children[1]
    IN  IF 0 # node.col_offset THEN {Event("visit_Call", n, {})}
        ELSE IF T[func].type \in {"Name", "Assign"} /\ T[func].name \in exceptions
             THEN {Event("visit_Call", n, {})}
        ELSE {Event("visit_Call", n, {n})}

visit_Call_attribute_skipped(T, n) ==
    LET node == T[n]
        func == node.children[1]
    IN  IF 0 # node.col_offset THEN {Event("visit_Call", n, {})}
        ELSE IF T[func].type = "Attribute" THEN {Event("visit_Call", n, {})}
        ELSE IF T[func].type \in {"Name", "Assign"} /\ T[func].name \in exceptions
             THEN {Event("visit_Call", n, {})}
        ELSE {Event("visit_Call", n, {n})}

\* CallImportChecker.visit_Call
visit_Call(T, n) ==
    LET node == T[n]
        func == node.children[1]
    IN  IF 0 # node.col_offset THEN {Event("visit_Call", n, {})}
        ELSE IF T[func].type = "Attribute" /\ T[func].name \in exceptions
             THEN {Event("visit_Call", n, {})}
        ELSE IF T[func].type \in {"Name", "Assign"} /\ T[func].name \in exceptions
             THEN {Event("visit_Call", n, {})}
        ELSE {Event("visit_Call", n, {n})}

\* ast.NodeVisitor.visit: getattr(self, "visit_" + class name, generic_visit)
visit(T, n) ==
    IF T[n].type = "Assign" THEN visit_Assign(T, n)
    ELSE IF T[n].type = "Call" THEN visit_Call(T, n)
    ELSE generic_visit(T, n)

\* ast.NodeVisitor.generic_visit: visit every child node
generic_visit(T, n) ==
    UNION {visit(T, T[n].children[k]) : k \in DOMAIN T[n].children}

\* ------------------------------------------------------------------------
\* Linter.format_code: code is the snippet split at newlines, <<>> for "".

IsNonEmpty(line) == line # ""

RECURSIVE interleave(_, _)
interleave(lines, left_pad) ==
    IF lines = <<>> THEN <<>>
    ELSE <<Head(lines), "\n", left_pad>> \o interleave(Tail(lines), left_pad)

format_code(message, code) ==
    IF code = <<>> THEN <<message>>
    ELSE IF Len(code) = 1 THEN <<message, " | ", code[1]>>
    ELSE <<message, " | ">>
         \o interleave(SelectSeq(code, IsNonEmpty), [spaces |-> message, barrier |-> " | "])

\* ------------------------------------------------------------------------
\* State.

VARIABLES
    files,          \* lint(files, ...): the list of paths
    verbose,        \* lint(..., verbose)
    checkers,       \* Linter.checkers, by issue code
    violations,     \* Checker.violations of every checker instance
    idx,            \* position of the for loop of lint in files
    pc,             \* position in lint / Linter.run
    file_name,      \* lint: file_name
    source_code,    \* lint: source_code
    pending,        \* Linter.run: checkers the for loop has not reached yet
    cur,            \* Linter.run: checker of the current iteration
    linted_files,   \* lint: linted_files
    stdout,         \* lines printed to standard output
    stderr,         \* lines printed to standard error
    trace,          \* history: for every line of stdout, the run and the node
    hooks,          \* history: hook calls, <<run, checker, hook, node>>
    visits          \* history: traversals started, <<run, checker>>

vars ==
    <<files, verbose, checkers, violations, idx, pc, file_name, source_code,
      pending, cur, linted_files, stdout, stderr, trace, hooks, visits>>

\* The tree ast.parse returned in the run on files[p].
Tree(p) == ast_parse(FileSystem(files[p]).text)

\* The node object a violation refers to.
NodeOf(v) == Tree(v.node[1])[v.node[2]]

PathLists == UNION {[1..n -> Paths] : n \in 0..MaxFiles}

Init ==
    /\ files \in PathLists
    /\ verbose \in BOOLEAN
    /\ checkers \in {{"W001"}, IssueCodes}
    /\ violations = [c \in IssueCodes |-> {}]
    /\ idx = 1
    /\ pc = "loop"
    /\ file_name = ""
    /\ source_code = ""
    /\ pending = {}
    /\ cur = ""
    /\ linted_files = 0
    /\ stdout = <<>>
    /\ stderr = <<>>
    /\ trace = <<>>
    /\ hooks = {}
    /\ visits = {}

\* ------------------------------------------------------------------------
\* lint

\* lint: a path that is not a regular file
Skip ==
    /\ pc = "loop"
    /\ idx <= Len(files)
    /\ ~is_file(files[idx])
    /\ stderr' = IF verbose THEN Append(stderr, <<"ignoring file: ", files[idx]>>)
                 ELSE stderr
    /\ idx' = idx + 1
    /\ UNCHANGED <<files, verbose, checkers, violations, pc, file_name,
                   source_code, pending, cur, linted_files, stdout, trace,
                   hooks, visits>>

\* lint: open and read a regular file (open raises on anything else)
Open ==
    /\ pc = "loop"
    /\ idx <= Len(files)
    /\ is_file(files[idx])
    /\ IF FileSystem(files[idx]).kind = "file"
       THEN /\ file_name' = basename(files[idx])
            /\ source_code' = FileSystem(files[idx]).text
            /\ pc' = "run"
       ELSE /\ pc' = "raised"
            /\ UNCHANGED <<file_name, source_code>>
    /\ UNCHANGED <<files, verbose, checkers, violations, idx, pending, cur,
                   linted_files, stdout, stderr, trace, hooks, visits>>

\* Linter.run: tree = ast.parse(source_code)
Parse ==
    /\ pc = "run"
    /\ ast_parse(source_code) # <<>>
    /\ pending' = checkers
    /\ pc' = "for"
    /\ UNCHANGED <<files, verbose, checkers, violations, idx, file_name,
                   source_code, cur, linted_files, stdout, stderr, trace,
                   hooks, visits>>

syntax_error_swallowed == "loop"

\* Neither Linter.run nor lint catches the SyntaxError of ast.parse.
syntax_error == "raised"

ParseError ==
    /\ pc = "run"
    /\ ast_parse(source_code) = <<>>
    /\ pc' = syntax_error
    /\ idx' = IF syntax_error = "raised" THEN idx ELSE idx + 1
    /\ UNCHANGED <<files, verbose, checkers, violations, file_name,
                   source_code, pending, cur, linted_files, stdout, stderr,
                   trace, hooks, visits>>

added_shared(c, vs) == [k \in IssueCodes |-> violations[k] \cup vs]

\* self.violations.add(...): the set is an attribute of the instance
added(c, vs) == [violations EXCEPT ![c] = @ \cup vs]

\* Linter.run: checker.visit(tree), for the next checker of the set
Visit ==
    /\ pc = "for"
    /\ \E c \in pending :
         LET events == visit(ast_parse(source_code), 1)
             found == {Violation(idx, n, "Import invoked a Call") :
                          n \in UNION {e.adds : e \in events}}
         IN  /\ cur' = c
             /\ pending' = pending \ {c}
             /\ violations' = added(c, found)
             /\ hooks' = hooks \cup {<<idx, c, e.hook, e.node>> : e \in events}
             /\ visits' = visits \cup {<<idx, c>>}
    /\ pc' = "print"
    /\ UNCHANGED <<files, verbose, checkers, idx, file_name, source_code,
                   linted_files, stdout, stderr, trace>>

\* The orders in which a for loop can go through a set.
Orders(S) ==
    {f \in [1..Cardinality(S) -> S] : \A i, j \in DOMAIN f : f[i] = f[j] => i = j}

cleared_never(c) == violations

\* print_violations: checker.violations = set()
cleared(c) == [violations EXCEPT ![c] = {}]

\* print_violations: the line of one violation
line(c, v) ==
    format_code(<<file_name, NodeOf(v).lineno, NodeOf(v).col_offset, c, v.message>>,
                IF verbose THEN NodeOf(v).segment ELSE <<>>)

\* Linter.print_violations
PrintViolations ==
    /\ pc = "print"
    /\ \E order \in Orders(violations[cur]) :
         /\ stdout' = stdout \o [k \in DOMAIN order |-> line(cur, order[k])]
         /\ trace' = trace \o [k \in DOMAIN order |->
                                 [run |-> idx, checker |-> cur, node |-> order[k].node]]
    /\ violations' = cleared(cur)
    /\ pc' = "for"
    /\ UNCHANGED <<files, verbose, checkers, idx, file_name, source_code,
                   pending, cur, linted_files, stderr, hooks, visits>>

\* Linter.run returns; lint: linted_files += 1
RunReturn ==
    /\ pc = "for"
    /\ pending = {}
    /\ linted_files' = linted_files + 1
    /\ idx' = idx + 1
    /\ pc' = "loop"
    /\ UNCHANGED <<files, verbose, checkers, violations, file_name,
                   source_code, pending, cur, stdout, stderr, trace, hooks,
                   visits>>

\* lint: print(f"Analyzed {linted_files} files\n", file=sys.stderr)
Summary ==
    /\ pc = "loop"
    /\ idx > Len(files)
    /\ stderr' = Append(stderr, <<"Analyzed ", linted_files, " files\n">>)
    /\ pc' = "done"
    /\ UNCHANGED <<files, verbose, checkers, violations, idx, file_name,
                   source_code, pending, cur, linted_files, stdout, trace,
                   hooks, visits>>

Next ==
    \/ Skip
    \/ Open
    \/ Parse
    \/ ParseError
    \/ Visit
    \/ PrintViolations
    \/ RunReturn
    \/ Summary

Spec == Init /\ [][Next]_vars

TypeOK ==
    /\ pc \in {"loop", "run", "for", "print", "done", "raised"}
    /\ idx \in 1..(Len(files) + 1)
    /\ linted_files \in 0..Len(files)
    /\ Len(trace) = Len(stdout)

\* ------------------------------------------------------------------------
\* Vocabulary of the properties.

Message == "Import invoked a Call"

\* The statements of the module body of tree T.
Body(T) == {T[1].children[k] : k \in DOMAIN T[1].children}

RECURSIVE Subtree(_, _)
Subtree(T, n) ==
    {n} \cup UNION {Subtree(T, T[n].children[k]) : k \in DOMAIN T[n].children}

\* Linter.run on files[i] has returned.
Ran(i) ==
    /\ i \in 1..Len(files)
    /\ i < idx
    /\ FileSystem(files[i]).kind = "file"
    /\ Tree(i) # <<>>

\* The callee of call k is a bare name or an attribute access whose name is
\* in the exception list.
CalleeExempt(T, k) ==
    LET f == T[k].children[1]
    IN  T[f].type \in {"Name", "Attribute"} /\ T[f].name \in exceptions

\* Statement s is a bare call statement.
IsCallStmt(T, s) == T[s].type = "Expr" /\ T[T[s].children[1]].type = "Call"

\* Statement s is an assignment of one of the given kinds whose right-hand
\* side is a call.
IsCallAssign(T, s, kinds) ==
    /\ T[s].type \in kinds
    /\ T[T[s].children[Len(T[s].children)]].type = "Call"

\* The positions in stdout of the lines checker c printed, during the run
\* on files[i], for nodes of S in the tree of files[i].
LinesFor(i, c, S) ==
    {j \in DOMAIN trace :
        /\ trace[j].run = i
        /\ trace[j].checker = c
        /\ trace[j].node[1] = i
        /\ trace[j].node[2] \in S}

\* Line j of stdout reports position (l, col) in file files[i] under code c.
ReportsAt(j, i, c, l, col) ==
    stdout[j][1] = <<basename(files[i]), l, col, c, Message>>

\* ------------------------------------------------------------------------
\* C1

C1Stmt(T, s) ==
    /\ IsCallStmt(T, s)
    /\ ~CalleeExempt(T, T[s].children[1])

C1StmtAtColumnZero(T, s) ==
    /\ C1Stmt(T, s)
    /\ T[T[s].children[1]].col_offset = 0
    /\ T[T[s].children[1]].lineno = T[s].lineno

C1Reported(i, c, s) ==
    \E j \in DOMAIN trace :
        /\ LinesFor(i, c, Subtree(Tree(i), s)) = {j}
        /\ ReportsAt(j, i, c, Tree(i)[s].lineno, Tree(i)[s].col_offset)

\* C1 (as stated): every bare call statement of the module body whose callee
\* is not in the exception list is reported exactly once, at the statement's
\* (line, column).
C1_EveryBareCall ==
    \A i \in 1..Len(files) : Ran(i) =>
        \A c \in checkers : \A s \in Body(Tree(i)) :
            C1Stmt(Tree(i), s) => C1Reported(i, c, s)

\* C1 (amended): every bare call statement of the module body whose call
\* begins at column 0 at the statement's own position, and whose callee is
\* not in the exception list, is reported exactly once, at the statement's
\* (line, column).
C1_BareCallAtColumnZero ==
    \A i \in 1..Len(files) : Ran(i) =>
        \A c \in checkers : \A s \in Body(Tree(i)) :
            C1StmtAtColumnZero(Tree(i), s) => C1Reported(i, c, s)

C1_Witness ==
    \E i \in 1..Len(files) :
        /\ Ran(i)
        /\ \E s \in Body(Tree(i)) : C1StmtAtColumnZero(Tree(i), s)
        /\ \E j \in DOMAIN trace : trace[j].run = i

\* ------------------------------------------------------------------------
\* C2

C2Stmt(T, s, kinds) ==
    /\ IsCallAssign(T, s, kinds)
    /\ ~CalleeExempt(T, T[s].children[Len(T[s].children)])

C2Reported(i, c, s) ==
    \E j \in DOMAIN trace :
        /\ LinesFor(i, c, Subtree(Tree(i), s)) = {j}
        /\ trace[j].node = <<i, s>>
        /\ ReportsAt(j, i, c, Tree(i)[s].lineno, Tree(i)[s].col_offset)

\* C2 (as stated): every assignment of the module body whose right-hand side
\* is a call with a callee not in the exception list is reported exactly
\* once, at the assignment's (line, column), never at the nested call.
C2_EveryAssign ==
    \A i \in 1..Len(files) : Ran(i) =>
        \A c \in checkers : \A s \in Body(Tree(i)) :
            C2Stmt(Tree(i), s, {"Assign", "AnnAssign"}) => C2Reported(i, c, s)

\* C2 (amended): every plain (unannotated) assignment of the module body
\* that begins at column 0 and whose right-hand side is a call with a callee
\* not in the exception list is reported exactly once, at the assignment's
\* (line, column), never at the nested call.
C2_AssignAtColumnZero ==
    \A i \in 1..Len(files) : Ran(i) =>
        \A c \in checkers : \A s \in Body(Tree(i)) :
            (C2Stmt(Tree(i), s, {"Assign"}) /\ Tree(i)[s].col_offset = 0)
                => C2Reported(i, c, s)

C2_Witness ==
    \E i \in 1..Len(files) :
        /\ Ran(i)
        /\ \E s \in Body(Tree(i)) :
              /\ C2Stmt(Tree(i), s, {"Assign"})
              /\ Tree(i)[s].col_offset = 0
              /\ Tree(i)[Tree(i)[s].children[Len(Tree(i)[s].children)]].col_offset = 0
        /\ \E j \in DOMAIN trace : trace[j].run = i

\* ------------------------------------------------------------------------
\* C3

C3Stmt(T, s) ==
    \/ IsCallStmt(T, s) /\ CalleeExempt(T, T[s].children[1])
    \/ /\ IsCallAssign(T, s, {"Assign"})
       /\ CalleeExempt(T, T[s].children[Len(T[s].children)])

\* C3: a bare call statement or an assignment of a call, in the module body,
\* whose callee name (bare or attribute) is in the exception list is never
\* recorded in a violation set nor printed, and a file with only such
\* statements prints nothing.
C3_ExemptNeverReported ==
    \A i \in 1..Len(files) :
        (FileSystem(files[i]).kind = "file" /\ Tree(i) # <<>>) =>
            /\ \A c \in IssueCodes : \A s \in Body(Tree(i)) :
                  C3Stmt(Tree(i), s) =>
                      /\ LinesFor(i, c, Subtree(Tree(i), s)) = {}
                      /\ \A v \in violations[c] :
                            ~(v.node[1] = i /\ v.node[2] \in Subtree(Tree(i), s))
            /\ (\A s \in Body(Tree(i)) : C3Stmt(Tree(i), s)) =>
                  \A j \in DOMAIN trace : trace[j].run # i

C3_Witness ==
    \E i \in 1..Len(files) :
        /\ Ran(i)
        /\ \A s \in Body(Tree(i)) : C3Stmt(Tree(i), s)
        /\ \E s \in Body(Tree(i)) : IsCallStmt(Tree(i), s)
        /\ \E s \in Body(Tree(i)) : IsCallAssign(Tree(i), s, {"Assign"})

\* ------------------------------------------------------------------------
\* C4

\* C4: every line printed during the run on a file reports a node of the
\* tree parsed in that run.
C4_NoLeakAcrossFiles ==
    \A j \in DOMAIN trace : trace[j].node[1] = trace[j].run

C4_Witness ==
    /\ pc = "done"
    /\ \E j \in DOMAIN trace : trace[j].run = 1
    /\ \E j \in DOMAIN trace : trace[j].run = 2

\* ------------------------------------------------------------------------
\* C5

Min(S) == CHOOSE x \in S : \A y \in S : x <= y
Max(S) == CHOOSE x \in S : \A y \in S : x >= y

\* What the run on files[i] wrote to stdout.
Output(i) ==
    LET J == {j \in DOMAIN trace : trace[j].run = i}
    IN  IF J = {} THEN <<>> ELSE SubSeq(stdout, Min(J), Max(J))

\* C5: two runs on an identical (file_name, source_text) pair print the same
\* lines in the same order.
C5_Idempotent ==
    pc = "done" =>
        \A i, j \in 1..Len(files) :
            (/\ Ran(i) /\ Ran(j)
             /\ basename(files[i]) = basename(files[j])
             /\ FileSystem(files[i]).text = FileSystem(files[j]).text)
                => Output(i) = Output(j)

\* ------------------------------------------------------------------------
\* C6

\* C6: a checker's violation set is non-empty only between its traversal of
\* a tree and the printing of its report; it is empty when a traversal
\* begins and after Linter.run has returned.
C6_EmptyOutsideReport ==
    \A c \in IssueCodes :
        violations[c] # {} => (pc = "print" /\ cur = c)

C6_Witness ==
    /\ pc = "for"
    /\ idx = 2
    /\ pending # {}
    /\ \E j \in DOMAIN trace : trace[j].run = 1

\* ------------------------------------------------------------------------
\* C7

\* C7: the lines of stdout are grouped by file in input order and, within a
\* file, by checker; no checker starts a traversal while a report is
\* outstanding.
C7_GroupedByFileAndRule ==
    /\ \A a, b \in DOMAIN trace :
          a < b => /\ trace[a].node[1] <= trace[b].node[1]
                   /\ trace[a].run <= trace[b].run
    /\ \A a, b, d \in DOMAIN trace :
          (/\ a < b /\ b < d
           /\ trace[a].run = trace[d].run
           /\ trace[a].checker = trace[d].checker)
              => trace[b].checker = trace[a].checker
    /\ pc = "for" => \A c \in checkers : violations[c] = {}
    /\ pc = "print" => \A c \in checkers \ {cur} : violations[c] = {}

C7_Witness ==
    /\ pc = "done"
    /\ \E a, b \in DOMAIN trace :
          /\ trace[a].run = 1 /\ trace[b].run = 1
          /\ trace[a].checker # trace[b].checker
    /\ \E a \in DOMAIN trace : trace[a].run = 2

\* ------------------------------------------------------------------------
\* C8

\* The nodes a traversal of the tree of files[i] records.
Found(i) == UNION {e.adds : e \in visit(Tree(i), 1)}

Printed(i, c) ==
    {trace[j].node[2] : j \in {k \in DOMAIN trace :
                                  trace[k].run = i /\ trace[k].checker = c}}

C8_AtError ==
    pc = "raised" =>
        /\ idx \in 1..Len(files)
        /\ FileSystem(files[idx]).kind = "file"
        /\ Tree(idx) = <<>>
        /\ \A i \in 1..(idx - 1) :
              FileSystem(files[i]).kind = "file" =>
                  /\ Tree(i) # <<>>
                  /\ \A c \in checkers : Printed(i, c) = Found(i)
        /\ \A c \in IssueCodes : violations[c] = {}
        /\ \A h \in hooks : h[1] < idx
        /\ \A v \in visits : v[1] < idx
        /\ \A k \in DOMAIN stderr : stderr[k][1] # "Analyzed "

C8_Step ==
    /\ (pc = "run" /\ ast_parse(source_code) = <<>>) => pc' = "raised"
    /\ pc = "raised" => pc' = "raised"

\* C8: the first file that does not parse makes lint raise and stop: the
\* violations of the files before it are already printed, no hook has run
\* on it or on a later file, every violation set is empty and no summary
\* line is printed.
C8_ParseErrorPropagates == []C8_AtError /\ [][C8_Step]_vars

C8_Witness ==
    /\ pc = "raised"
    /\ idx = 2
    /\ trace # <<>>

\* ------------------------------------------------------------------------
\* C9

Skipped == {i \in 1..Len(files) : FileSystem(files[i]).kind # "file"}

\* C9: a path that is not a regular file is skipped and never aborts the
\* run; when lint finishes, the summary counts the paths that were not
\* skipped, and every one of them has been traversed by every checker.
C9_SkipAndCount ==
    /\ pc = "raised" => FileSystem(files[idx]).kind = "file"
    /\ pc = "done" =>
          /\ linted_files = Len(files) - Cardinality(Skipped)
          /\ stderr[Len(stderr)] = <<"Analyzed ", Len(files) - Cardinality(Skipped), " files\n">>
          /\ \A i \in 1..Len(files) :
                IF i \in Skipped
                THEN /\ \A v \in visits : v[1] # i
                     /\ \A j \in DOMAIN trace : trace[j].run # i
                ELSE \A c \in checkers : <<i, c>> \in visits

C9_Witness ==
    /\ pc = "done"
    /\ Len(files) = 2
    /\ Skipped = {1}
    /\ linted_files = 1
    /\ trace # <<>>

\* ------------------------------------------------------------------------
\* C10

Hooked(i, c, h) == {e[4] : e \in {x \in hooks : x[1] = i /\ x[2] = c /\ x[3] = h}}

\* The nodes of type t that do not lie below a Call or an Assign node.
Outermost(T, t) ==
    {n \in DOMAIN T :
        /\ T[n].type = t
        /\ \A a \in DOMAIN T :
              (a # n /\ n \in Subtree(T, a)) => T[a].type \notin {"Call", "Assign"}}

====
